---- MODULE Spec2Model ----
(***************************************************************************)
(* A model of openflow: the generator (generator/src) that renders the     *)
(* configured agents, skills and commands into dist/<platform>, and the    *)
(* installer script install.sh that copies dist/<platform> into the        *)
(* configuration directory of a detected tool.                             *)
(*                                                                         *)
(* Text is a sequence of tokens; the token NL is the newline character.    *)
(* A path is a sequence of path segments.                                  *)
(***************************************************************************)
EXTENDS Integers, Sequences, FiniteSets, TLC

\* Number of generator runs in a row on the same checkout.
MaxRuns == 2

NL == "\n"
DELIM == "---"
UNDEFINED == "<undefined>"

(***************************************************************************)
(* src/config: the configured content entries.                             *)
(***************************************************************************)
agents_Duplicate ==
  << [name |-> "researcher",
      description |-> "Explore codebase, find patterns, map dependencies, identify constraints",
      tools |-> <<"Read", "Write", "Edit", "Grep", "Glob">>,
      color |-> "blue",
      contentFile |-> <<"content", "agents", "researcher.md">>],
     [name |-> "architect",
      description |-> "Design system structure, make technical decisions, define component boundaries",
      tools |-> <<"Read", "Write", "Edit", "Grep", "Glob">>,
      color |-> "purple",
      contentFile |-> <<"content", "agents", "architect.md">>],
     [name |-> "executor",
      description |-> "Implement planned tasks, write code, follow patterns, track progress",
      tools |-> <<"Read", "Write", "Edit", "Bash", "Grep", "Glob">>,
      color |-> "green",
      contentFile |-> <<"content", "agents", "executor.md">>],
     [name |-> "researcher",
      description |-> "Review code quality, check against requirements, identify issues and improvements",
      tools |-> <<"Read", "Write", "Edit", "Grep", "Glob">>,
      color |-> "red",
      contentFile |-> <<"content", "agents", "verifier.md">>] >>

agents ==
  << [name |-> "researcher",
      description |-> "Explore codebase, find patterns, map dependencies, identify constraints",
      tools |-> <<"Read", "Write", "Edit", "Grep", "Glob">>,
      color |-> "blue",
      contentFile |-> <<"content", "agents", "researcher.md">>],
     [name |-> "architect",
      description |-> "Design system structure, make technical decisions, define component boundaries",
      tools |-> <<"Read", "Write", "Edit", "Grep", "Glob">>,
      color |-> "purple",
      contentFile |-> <<"content", "agents", "architect.md">>],
     [name |-> "executor",
      description |-> "Implement planned tasks, write code, follow patterns, track progress",
      tools |-> <<"Read", "Write", "Edit", "Bash", "Grep", "Glob">>,
      color |-> "green",
      contentFile |-> <<"content", "agents", "executor.md">>],
     [name |-> "verifier",
      description |-> "Review code quality, check against requirements, identify issues and improvements",
      tools |-> <<"Read", "Write", "Edit", "Grep", "Glob">>,
      color |-> "red",
      contentFile |-> <<"content", "agents", "verifier.md">>] >>

skills ==
  << [name |-> "typescript",
      description |-> "TypeScript patterns for Node.js backends, testing, and type-safe development. Use when writing TypeScript/Node.js code.",
      contentFile |-> <<"content", "skills", "typescript.md">>],
     [name |-> "golang",
      description |-> "Go patterns for backend development, testing, and clean architecture. Use when writing Go code.",
      contentFile |-> <<"content", "skills", "golang.md">>],
     [name |-> "python",
      description |-> "Python patterns for backend development, testing, and async programming. Use when writing Python code.",
      contentFile |-> <<"content", "skills", "python.md">>],
     [name |-> "bash",
      description |-> "Defensive Bash scripting patterns for reliable automation. Use when writing shell scripts.",
      contentFile |-> <<"content", "skills", "bash.md">>],
     [name |-> "clean-architecture",
      description |-> "Clean Architecture principles for maintainable, testable applications. Use when designing application structure or refactoring.",
      contentFile |-> <<"content", "skills", "clean-architecture.md">>],
     [name |-> "cloud-design",
      description |-> "Design resilient, scalable multi-cloud architectures with best practices for AWS, Azure, and GCP. Use when creating cloud architecture diagrams, planning cloud infrastructure, or designing cloud migration strategies.",
      contentFile |-> <<"content", "skills", "cloud-design.md">>],
     [name |-> "k8s-architecture",
      description |-> "Design and implement production-grade Kubernetes clusters with best practices for reliability, security, and scalability. Use when planning cluster architecture, designing K8s network models, or implementing multi-cluster strategies.",
      contentFile |-> <<"content", "skills", "k8s-architecture.md">>],
     [name |-> "terraform",
      description |-> "Terraform patterns for AWS infrastructure. Use when writing IaC for cloud infrastructure.",
      contentFile |-> <<"content", "skills", "terraform.md">>] >>

commands ==
  << [name |-> "o",
      description |-> "Enter orchestrate mode for feature development",
      contentFile |-> <<"content", "commands", "orchestrate.md">>] >>

\* src/config/global.ts is not among the sources; index.ts reads its contentFile.
globalConfig == [contentFile |-> <<"content", "global", "GLOBAL.md">>]

(***************************************************************************)
(* src/platforms: the platform descriptors.                                *)
(***************************************************************************)
kiro ==
  [platform |-> "kiro",
   displayName |-> "Kiro",
   folderStructure |-> [root |-> ".kiro", agentPath |-> "agents", skillPath |-> "skills",
                        commandPath |-> "commands", globalFile |-> "CONFIG.md"],
   frontmatter |-> [agents |-> [required |-> <<"name", "description", "tools", "color">>],
                    skills |-> [required |-> <<"name", "description">>],
                    commands |-> [required |-> <<"name", "description">>]],
   features |-> [supportsFrontmatter |-> TRUE, supportsColors |-> TRUE, supportsTools |-> TRUE]]

\* PlatformFeatures: three independent booleans.
PlatformFeatures ==
  [supportsFrontmatter : BOOLEAN, supportsColors : BOOLEAN, supportsTools : BOOLEAN]

\* FrontmatterRequirements: the required lists a descriptor may declare.
FrontmatterRequirements ==
  [agents : {[required |-> <<"name", "description">>],
             [required |-> <<"name", "description", "tools", "color">>]},
   skills : {[required |-> <<"name", "description">>]},
   commands : {[required |-> <<"name", "description">>]}]

\* src/platforms/opencode.json and claude-code.json are imported by index.ts but are
\* not among the sources: every descriptor of the PlatformConfig shape is admitted.
OpencodeConfigs ==
  {[platform |-> "opencode", displayName |-> "OpenCode",
    folderStructure |-> [root |-> ".opencode", agentPath |-> "agents", skillPath |-> "skills",
                         commandPath |-> "commands", globalFile |-> "AGENTS.md"],
    frontmatter |-> r, features |-> f] :
     r \in FrontmatterRequirements, f \in PlatformFeatures}

ClaudeConfigs ==
  {[platform |-> "claude-code", displayName |-> "Claude Code",
    folderStructure |-> [root |-> ".claude", agentPath |-> "agents", skillPath |-> "skills",
                         commandPath |-> "commands", globalFile |-> "CLAUDE.md"],
    frontmatter |-> r, features |-> f] :
     r \in FrontmatterRequirements, f \in PlatformFeatures}

(***************************************************************************)
(* generator/src/utils/format.ts                                           *)
(***************************************************************************)
RECURSIVE Join(_, _)
\* Array.prototype.join: the elements with sep between consecutive ones.
Join(parts, sep) ==
  IF Len(parts) = 0 THEN <<>>
  ELSE IF Len(parts) = 1 THEN parts[1]
  ELSE parts[1] \o <<sep>> \o Join(Tail(parts), sep)

generateAgentFrontmatter_ColorAlways(agent, platform) ==
  LET l0 == << <<DELIM>>, <<"name", ": ", agent.name>>,
               <<"description", ": ", agent.description>> >>
      l1 == IF platform.features.supportsTools
            THEN Append(l0, <<"tools", ": ">> \o Join([i \in DOMAIN agent.tools |-> <<agent.tools[i]>>], ", "))
            ELSE l0
      l2 == Append(l1, <<"color", ": ", agent.color>>)
  IN  Join(Append(l2, <<DELIM>>), NL)

generateAgentFrontmatter(agent, platform) ==
  LET l0 == << <<DELIM>>, <<"name", ": ", agent.name>>,
               <<"description", ": ", agent.description>> >>
      l1 == IF platform.features.supportsTools
            THEN Append(l0, <<"tools", ": ">> \o Join([i \in DOMAIN agent.tools |-> <<agent.tools[i]>>], ", "))
            ELSE l0
      l2 == IF platform.features.supportsColors
            THEN Append(l1, <<"color", ": ", agent.color>>)
            ELSE l1
  IN  Join(Append(l2, <<DELIM>>), NL)

generateSkillFrontmatter(skill, platform) ==
  Join(<< <<DELIM>>, <<"name", ": ", skill.name>>,
          <<"description", ": ", skill.description>>, <<DELIM>> >>, NL)

generateCommandFrontmatter(command, platform) ==
  Join(<< <<DELIM>>, <<"name", ": ", command.name>>,
          <<"description", ": ", command.description>>, <<DELIM>> >>, NL)

(***************************************************************************)
(* generator/src/utils/files.ts: the file system is a function from the    *)
(* paths of the files that exist to their text.                            *)
(***************************************************************************)
FileExists(fs, filePath) == filePath \in DOMAIN fs

\* readMarkdown: the text of the file (the caller has checked that it exists;
\* Bun's file.text() rejects for a missing file).
readMarkdown(fs, filePath) == fs[filePath]

writeFile_Append(fs, filePath, content) ==
  IF filePath \in DOMAIN fs
  THEN [fs EXCEPT ![filePath] = @ \o content]
  ELSE (filePath :> content) @@ fs

\* writeFile: mkdir -p of the directory, then Bun.write replaces the file's text.
writeFile(fs, filePath, content) ==
  IF filePath \in DOMAIN fs
  THEN [fs EXCEPT ![filePath] = content]
  ELSE (filePath :> content) @@ fs

(***************************************************************************)
(* generator/src/index.ts                                                  *)
(***************************************************************************)
SRC_ROOT == <<"src">>
DIST_ROOT == <<"dist">>

\* The text of a content file of src/content, abridged to its heading and a body.
ContentText(contentFile) ==
  <<"# ", contentFile[Len(contentFile)], NL, NL, "body of ", contentFile[Len(contentFile)]>>

ContentFiles ==
  {agents[i].contentFile : i \in DOMAIN agents}
    \cup {skills[i].contentFile : i \in DOMAIN skills}
    \cup {commands[i].contentFile : i \in DOMAIN commands}
    \cup {globalConfig.contentFile}

\* The source tree: every configured content file under src/.
SourceTree == [f \in {SRC_ROOT \o c : c \in ContentFiles} |-> ContentText(SubSeq(f, 2, Len(f)))]

\* A checkout in which one content file is missing.
BrokenSourceTree ==
  [f \in DOMAIN SourceTree \ {SRC_ROOT \o commands[1].contentFile} |-> SourceTree[f]]

\* A dist/ left by an earlier version of the generator.
StaleTree ==
  (<<"dist", "claude-code", "agents", "researcher.md">> :> <<"stale">>)
    @@ (<<"dist", "claude-code", "agents", "planner.md">> :> <<"stale">>)

\* process.argv.slice(2) of the runs considered.
ArgvSet ==
  { <<>>, <<"--platform", "all">>, <<"--platform", "opencode">>,
    <<"--platform", "claude-code">>, <<"--platform", "kiro">>,
    <<"--platform", "vscode">>, <<"--platform">> }

VARIABLES
  argv,         \* the command line of the generator
  opencodeJson, \* the descriptor src/platforms/opencode.json
  claudeJson,   \* the descriptor src/platforms/claude-code.json
  fs,           \* the files of the checkout: src/ and dist/
  pc,           \* position of main
  queue,        \* descriptors generateForPlatform is still to be called with
  phase,        \* position inside generateForPlatform
  idx,          \* index of the entry the current loop is at
  writes,       \* the writeFile calls of this run: [by, path]
  stdout,       \* console.log lines of this run
  stderr,       \* console.error lines of this run
  exitCode,     \* process exit status, -1 while running
  runs,         \* number of runs started
  prevFs        \* the files when this run started

gvars == <<argv, opencodeJson, claudeJson, fs, pc, queue, phase, idx, writes,
           stdout, stderr, exitCode, runs, prevFs>>

VARIABLES
  cmdline,      \* the arguments install.sh is started with by the user
  piped,        \* stdin is not a terminal (curl | bash)
  present,      \* the tools whose config directory exists or whose command is on PATH
  tree,         \* the directories of the start directory and of INSTALL_DIR
  where,        \* the directory the shell is in: "cwd" or "installdir"
  sh,           \* the shell variables and positional parameters of the running script
  ipc,          \* position of install.sh
  status,       \* exit status of install.sh, -1 while running
  execs,        \* number of times install.sh has re-executed itself, up to MaxExec
  effects,      \* what the script has done: git, make, mkdir, cp, announcements
  trail         \* the steps the running script has taken since it was started

ivars == <<cmdline, piped, present, tree, where, sh, ipc, status, execs, effects, trail>>

VARIABLES
  mkfile,       \* the Makefile make reads: "Makefile" or "legacy"
  goal,         \* the target make is asked for
  plan,         \* the targets still to be made, in order
  work,         \* the files of the checkout: the root sources and dist/
  home,         \* the files under $HOME
  home0,        \* the files under $HOME when make started
  mlog,         \* the targets made so far, each with the copies of its recipe
  mstatus       \* exit status of make, -1 while running

mvars == <<mkfile, goal, plan, work, home, home0, mlog, mstatus>>

vars == <<gvars, ivars, mvars>>

\* args.indexOf('--platform')
IndexOf(args, x) ==
  IF \E i \in DOMAIN args : args[i] = x
  THEN (CHOOSE i \in DOMAIN args : args[i] = x /\ \A j \in 1..(i - 1) : args[j] # x) - 1
  ELSE -1

\* main: platformIndex !== -1 ? args[platformIndex + 1] : 'all'
PlatformArg(args) ==
  LET platformIndex == IndexOf(args, "--platform")
  IN  IF platformIndex # -1
      THEN IF platformIndex + 2 \in DOMAIN args THEN args[platformIndex + 2] ELSE UNDEFINED
      ELSE "all"

AgentOutputPath_NoPlatform(platformConfig, agent) ==
  DIST_ROOT \o <<platformConfig.folderStructure.agentPath, agent.name \o ".md">>

AgentOutputPath(platformConfig, agent) ==
  DIST_ROOT \o <<platformConfig.platform>>
    \o <<platformConfig.folderStructure.agentPath, agent.name \o ".md">>

SkillOutputPath(platformConfig, skill) ==
  DIST_ROOT \o <<platformConfig.platform>>
    \o <<platformConfig.folderStructure.skillPath, skill.name, "SKILL.md">>

CommandOutputPath(platformConfig, command) ==
  DIST_ROOT \o <<platformConfig.platform>>
    \o <<platformConfig.folderStructure.commandPath, command.name \o ".md">>

GlobalOutputPath(platformConfig) ==
  DIST_ROOT \o <<platformConfig.platform>> \o <<platformConfig.folderStructure.globalFile>>

Output_OneNewline(frontmatter, content) == frontmatter \o <<NL>> \o content

\* `${frontmatter}\n\n${content}`
Output(frontmatter, content) == frontmatter \o <<NL, NL>> \o content

RECURSIVE LoopPosition(_, _)
\* The statement of generateForPlatform reached at entry i of loop ph: a loop whose
\* entries are exhausted falls through to the next one, the last to the global file.
LoopPosition(ph, i) ==
  IF ph = "agents" THEN (IF i <= Len(agents) THEN <<ph, i>> ELSE LoopPosition("skills", 1))
  ELSE IF ph = "skills" THEN (IF i <= Len(skills) THEN <<ph, i>> ELSE LoopPosition("commands", 1))
  ELSE IF ph = "commands" THEN (IF i <= Len(commands) THEN <<ph, i>> ELSE <<"global", 1>>)
  ELSE <<"global", 1>>

\* main().catch: a rejected promise is reported and the process exits with status 1.
Rejected ==
  /\ stderr' = Append(stderr, "Error:")
  /\ exitCode' = 1
  /\ pc' = "exited"
  /\ UNCHANGED <<fs, queue, phase, idx, writes, stdout>>

\* main, platform === 'all': generateAll calls generateForPlatform for the two
\* imported descriptors, opencode first.
MainAll ==
  /\ UNCHANGED <<ivars, mvars>>
  /\ pc = "main"
  /\ PlatformArg(argv) = "all"
  /\ stdout' = stdout \o <<"OpenFlow Generator", "==================">>
  /\ queue' = <<opencodeJson, claudeJson>>
  /\ pc' = "generate"
  /\ phase' = "begin"
  /\ idx' = 1
  /\ UNCHANGED <<argv, opencodeJson, claudeJson, fs, writes, stderr, exitCode, runs, prevFs>>

\* main, platform === 'opencode'
MainOpencode ==
  /\ UNCHANGED <<ivars, mvars>>
  /\ pc = "main"
  /\ PlatformArg(argv) = "opencode"
  /\ stdout' = stdout \o <<"OpenFlow Generator", "==================">>
  /\ queue' = <<opencodeJson>>
  /\ pc' = "generate"
  /\ phase' = "begin"
  /\ idx' = 1
  /\ UNCHANGED <<argv, opencodeJson, claudeJson, fs, writes, stderr, exitCode, runs, prevFs>>

\* main, platform === 'claude-code'
MainClaude ==
  /\ UNCHANGED <<ivars, mvars>>
  /\ pc = "main"
  /\ PlatformArg(argv) = "claude-code"
  /\ stdout' = stdout \o <<"OpenFlow Generator", "==================">>
  /\ queue' = <<claudeJson>>
  /\ pc' = "generate"
  /\ phase' = "begin"
  /\ idx' = 1
  /\ UNCHANGED <<argv, opencodeJson, claudeJson, fs, writes, stderr, exitCode, runs, prevFs>>

MainUnknown_NoExit ==
  /\ UNCHANGED <<ivars, mvars>>
  /\ pc = "main"
  /\ PlatformArg(argv) \notin {"all", "opencode", "claude-code"}
  /\ stdout' = stdout \o <<"OpenFlow Generator", "==================">>
  /\ stderr' = stderr \o <<"Error: Unknown platform " \o PlatformArg(argv),
                           "Usage: bun generate [--platform opencode|claude-code|all]">>
  /\ pc' = "complete"
  /\ UNCHANGED <<argv, opencodeJson, claudeJson, fs, queue, phase, idx, writes, exitCode,
                 runs, prevFs>>

\* main, any other platform: the error, the usage line and process.exit(1).
MainUnknown ==
  /\ UNCHANGED <<ivars, mvars>>
  /\ pc = "main"
  /\ PlatformArg(argv) \notin {"all", "opencode", "claude-code"}
  /\ stdout' = stdout \o <<"OpenFlow Generator", "==================">>
  /\ stderr' = stderr \o <<"Error: Unknown platform " \o PlatformArg(argv),
                           "Usage: bun generate [--platform opencode|claude-code|all]">>
  /\ exitCode' = 1
  /\ pc' = "exited"
  /\ UNCHANGED <<argv, opencodeJson, claudeJson, fs, queue, phase, idx, writes, runs, prevFs>>

\* generateForPlatform: the destructuring and the "Generating for" line.
GenBegin ==
  /\ UNCHANGED <<ivars, mvars>>
  /\ pc = "generate"
  /\ phase = "begin"
  /\ stdout' = Append(stdout, "Generating for " \o Head(queue).displayName \o "...")
  /\ phase' = LoopPosition("agents", 1)[1]
  /\ idx' = LoopPosition("agents", 1)[2]
  /\ UNCHANGED <<argv, opencodeJson, claudeJson, fs, pc, queue, writes, stderr, exitCode,
                 runs, prevFs>>

\* generateForPlatform: one iteration of the loop over agents.
GenAgent ==
  /\ UNCHANGED <<ivars, mvars>>
  /\ pc = "generate"
  /\ phase = "agents"
  /\ LET platformConfig == Head(queue)
         agent == agents[idx]
         contentPath == SRC_ROOT \o agent.contentFile
     IN  IF FileExists(fs, contentPath)
         THEN LET content == readMarkdown(fs, contentPath)
                  frontmatter == generateAgentFrontmatter(agent, platformConfig)
                  output == Output(frontmatter, content)
                  outputPath == AgentOutputPath(platformConfig, agent)
              IN  /\ fs' = writeFile(fs, outputPath, output)
                  /\ writes' = Append(writes, [by |-> platformConfig.platform, path |-> outputPath])
                  /\ stdout' = Append(stdout, "  Agent: " \o agent.name)
                  /\ phase' = LoopPosition("agents", idx + 1)[1]
                  /\ idx' = LoopPosition("agents", idx + 1)[2]
                  /\ UNCHANGED <<pc, queue, stderr, exitCode>>
         ELSE Rejected
  /\ UNCHANGED <<argv, opencodeJson, claudeJson, runs, prevFs>>

\* generateForPlatform: one iteration of the loop over skills.
GenSkill ==
  /\ UNCHANGED <<ivars, mvars>>
  /\ pc = "generate"
  /\ phase = "skills"
  /\ LET platformConfig == Head(queue)
         skill == skills[idx]
         contentPath == SRC_ROOT \o skill.contentFile
     IN  IF FileExists(fs, contentPath)
         THEN LET content == readMarkdown(fs, contentPath)
                  frontmatter == generateSkillFrontmatter(skill, platformConfig)
                  output == Output(frontmatter, content)
                  outputPath == SkillOutputPath(platformConfig, skill)
              IN  /\ fs' = writeFile(fs, outputPath, output)
                  /\ writes' = Append(writes, [by |-> platformConfig.platform, path |-> outputPath])
                  /\ stdout' = Append(stdout, "  Skill: " \o skill.name)
                  /\ phase' = LoopPosition("skills", idx + 1)[1]
                  /\ idx' = LoopPosition("skills", idx + 1)[2]
                  /\ UNCHANGED <<pc, queue, stderr, exitCode>>
         ELSE Rejected
  /\ UNCHANGED <<argv, opencodeJson, claudeJson, runs, prevFs>>

\* generateForPlatform: one iteration of the loop over commands.
GenCommand ==
  /\ UNCHANGED <<ivars, mvars>>
  /\ pc = "generate"
  /\ phase = "commands"
  /\ LET platformConfig == Head(queue)
         command == commands[idx]
         contentPath == SRC_ROOT \o command.contentFile
     IN  IF FileExists(fs, contentPath)
         THEN LET content == readMarkdown(fs, contentPath)
                  frontmatter == generateCommandFrontmatter(command, platformConfig)
                  output == Output(frontmatter, content)
                  outputPath == CommandOutputPath(platformConfig, command)
              IN  /\ fs' = writeFile(fs, outputPath, output)
                  /\ writes' = Append(writes, [by |-> platformConfig.platform, path |-> outputPath])
                  /\ stdout' = Append(stdout, "  Command: " \o command.name)
                  /\ phase' = LoopPosition("commands", idx + 1)[1]
                  /\ idx' = LoopPosition("commands", idx + 1)[2]
                  /\ UNCHANGED <<pc, queue, stderr, exitCode>>
         ELSE Rejected
  /\ UNCHANGED <<argv, opencodeJson, claudeJson, runs, prevFs>>

\* generateForPlatform: the global file, copied without frontmatter, and the return
\* to the caller (generateAll's next call, or main's completion message).
GenGlobal ==
  /\ UNCHANGED <<ivars, mvars>>
  /\ pc = "generate"
  /\ phase = "global"
  /\ LET platformConfig == Head(queue)
         globalContentPath == SRC_ROOT \o globalConfig.contentFile
     IN  IF FileExists(fs, globalContentPath)
         THEN LET globalContent == readMarkdown(fs, globalContentPath)
                  globalOutputPath == GlobalOutputPath(platformConfig)
              IN  /\ fs' = writeFile(fs, globalOutputPath, globalContent)
                  /\ writes' = Append(writes, [by |-> platformConfig.platform, path |-> globalOutputPath])
                  /\ stdout' = stdout \o <<"  Global: " \o platformConfig.folderStructure.globalFile,
                                           platformConfig.displayName \o " generation complete">>
                  /\ queue' = Tail(queue)
                  /\ phase' = "begin"
                  /\ idx' = 1
                  /\ pc' = IF Len(queue) > 1 THEN "generate" ELSE "complete"
                  /\ UNCHANGED <<stderr, exitCode>>
         ELSE Rejected
  /\ UNCHANGED <<argv, opencodeJson, claudeJson, runs, prevFs>>

\* main: the completion message; the process ends with status 0.
MainComplete ==
  /\ UNCHANGED <<ivars, mvars>>
  /\ pc = "complete"
  /\ stdout' = Append(stdout, "Generation complete!")
  /\ exitCode' = 0
  /\ pc' = "done"
  /\ UNCHANGED <<argv, opencodeJson, claudeJson, fs, queue, phase, idx, writes, stderr,
                 runs, prevFs>>

\* The generator is started again with the same command line on the same checkout.
Rerun ==
  /\ UNCHANGED <<ivars, mvars>>
  /\ pc \in {"done", "exited"}
  /\ runs < MaxRuns
  /\ runs' = runs + 1
  /\ prevFs' = fs
  /\ pc' = "main"
  /\ queue' = <<>>
  /\ phase' = "begin"
  /\ idx' = 1
  /\ writes' = <<>>
  /\ stdout' = <<>>
  /\ stderr' = <<>>
  /\ exitCode' = -1
  /\ UNCHANGED <<argv, opencodeJson, claudeJson, fs>>

GenInit ==
  /\ argv \in ArgvSet
  /\ opencodeJson \in OpencodeConfigs
  /\ claudeJson \in ClaudeConfigs
  /\ fs \in {SourceTree, SourceTree @@ StaleTree, BrokenSourceTree}
  /\ pc = "main"
  /\ queue = <<>>
  /\ phase = "begin"
  /\ idx = 1
  /\ writes = <<>>
  /\ stdout = <<>>
  /\ stderr = <<>>
  /\ exitCode = -1
  /\ runs = 1
  /\ prevFs = fs

GenNext ==
  \/ MainAll
  \/ MainOpencode
  \/ MainClaude
  \/ MainUnknown
  \/ GenBegin
  \/ GenAgent
  \/ GenSkill
  \/ GenCommand
  \/ GenGlobal
  \/ MainComplete
  \/ Rerun

(***************************************************************************)
(* install.sh                                                              *)
(***************************************************************************)
\* The re-executions of install.sh are counted up to this number.
MaxExec == 2

\* The command lines considered: each option at most once, and three malformed ones.
CmdlineSet ==
  { d \o n \o p \o f :
      d \in {<<>>, <<"--dry-run">>},
      n \in {<<>>, <<"--no-generate">>},
      p \in {<<>>, <<"--platform", "opencode">>, <<"--platform", "claude-code">>,
             <<"--platform", "both">>, <<"--platform", "vscode">>},
      f \in {<<>>, <<"--force">>} }
    \cup { <<"--help">>, <<"--verbose">>, <<"--platform">> }

\* Default values of the script's variables (lines 12-18) for positional parameters a.
ShDefaults(a) ==
  [NO_GENERATE |-> FALSE, DRY_RUN |-> FALSE, PLATFORM |-> "", FORCE |-> FALSE,
   HAS_OPENCODE |-> FALSE, HAS_CLAUDE |-> FALSE,
   INSTALL_OPENCODE |-> FALSE, INSTALL_CLAUDE |-> FALSE, args |-> a]

RECURSIVE ParseArgs(_)
\* The argument loop: each iteration consumes $1 (and $2 after --platform) with shift.
\* outcome is "ok" when $# reached 0, "help" for usage, "error" for an unknown option
\* or for --platform without a value ($2 unbound under set -u).
ParseArgs(s) ==
  IF s.args = <<>> THEN [sh |-> s, outcome |-> "ok"]
  ELSE LET a == Head(s.args)
       IN  IF a = "--help" THEN [sh |-> s, outcome |-> "help"]
           ELSE IF a = "--dry-run"
             THEN ParseArgs([s EXCEPT !.DRY_RUN = TRUE, !.args = Tail(s.args)])
           ELSE IF a = "--no-generate"
             THEN ParseArgs([s EXCEPT !.NO_GENERATE = TRUE, !.args = Tail(s.args)])
           ELSE IF a = "--platform"
             THEN IF Len(s.args) < 2 THEN [sh |-> s, outcome |-> "error"]
                  ELSE ParseArgs([s EXCEPT !.PLATFORM = s.args[2],
                                           !.args = SubSeq(s.args, 3, Len(s.args))])
           ELSE IF a = "--force"
             THEN ParseArgs([s EXCEPT !.FORCE = TRUE, !.args = Tail(s.args)])
           ELSE [sh |-> s, outcome |-> "error"]

\* install_platform: the target directory of a platform, below $HOME.
TargetDir(platform) ==
  IF platform = "opencode" THEN <<".config", "opencode", "skills">>
  ELSE <<".claude", "skills">>

Selection_AutoBoth(s) ==
  IF s.PLATFORM # ""
  THEN IF s.PLATFORM = "opencode"
         THEN [INSTALL_OPENCODE |-> TRUE, INSTALL_CLAUDE |-> FALSE,
               ok |-> s.HAS_OPENCODE \/ s.FORCE]
       ELSE IF s.PLATFORM = "claude-code"
         THEN [INSTALL_OPENCODE |-> FALSE, INSTALL_CLAUDE |-> TRUE,
               ok |-> s.HAS_CLAUDE \/ s.FORCE]
       ELSE [INSTALL_OPENCODE |-> TRUE, INSTALL_CLAUDE |-> TRUE,
             ok |-> s.HAS_OPENCODE \/ s.HAS_CLAUDE \/ s.FORCE]
  ELSE [INSTALL_OPENCODE |-> s.HAS_OPENCODE \/ s.HAS_CLAUDE,
        INSTALL_CLAUDE |-> s.HAS_OPENCODE \/ s.HAS_CLAUDE,
        ok |-> s.HAS_OPENCODE \/ s.HAS_CLAUDE]

\* "Determine what to install" (lines 150-194): the two INSTALL_ flags, and whether
\* the script goes on (ok) or exits with status 1. PLATFORM has passed validation.
Selection(s) ==
  IF s.PLATFORM # ""
  THEN IF s.PLATFORM = "opencode"
         THEN [INSTALL_OPENCODE |-> TRUE, INSTALL_CLAUDE |-> FALSE,
               ok |-> s.HAS_OPENCODE \/ s.FORCE]
       ELSE IF s.PLATFORM = "claude-code"
         THEN [INSTALL_OPENCODE |-> FALSE, INSTALL_CLAUDE |-> TRUE,
               ok |-> s.HAS_CLAUDE \/ s.FORCE]
       ELSE [INSTALL_OPENCODE |-> TRUE, INSTALL_CLAUDE |-> TRUE,
             ok |-> s.HAS_OPENCODE \/ s.HAS_CLAUDE \/ s.FORCE]
  ELSE [INSTALL_OPENCODE |-> s.HAS_OPENCODE,
        INSTALL_CLAUDE |-> s.HAS_CLAUDE,
        ok |-> s.HAS_OPENCODE \/ s.HAS_CLAUDE]

\* The script ends with exit status c.
ShExit(c) ==
  /\ ipc' = "exit"
  /\ status' = c

\* The script goes on to step l.
ShGoto(l) ==
  /\ ipc' = l
  /\ status' = status

\* Lines 77-105: the argument loop.
ShParse ==
  /\ ipc = "parse"
  /\ LET r == ParseArgs(sh)
     IN  /\ sh' = r.sh
         /\ IF r.outcome = "help" THEN ShExit(0)
            ELSE IF r.outcome = "error" THEN ShExit(1)
            ELSE ShGoto("pipe")
  /\ trail' = Append(trail, "parse")
  /\ UNCHANGED <<cmdline, piped, present, tree, where, execs, effects>>
  /\ UNCHANGED <<gvars, mvars>>

\* Lines 107-115: remote install mode is entered when stdin is a pipe and the
\* current directory lacks generator/ or dist/.
ShPipeCheck ==
  /\ ipc = "pipe"
  /\ IF piped /\ (~tree[where].generator \/ ~tree[where].dist)
     THEN ShGoto("setup_repo")
     ELSE ShGoto("validate")
  /\ trail' = Append(trail, "pipe")
  /\ UNCHANGED <<cmdline, piped, present, tree, where, sh, execs, effects>>
  /\ UNCHANGED <<gvars, mvars>>

\* setup_repo (lines 26-44): nothing under --dry-run; a pull (whose failure is
\* ignored) in an existing clone; otherwise a clone, whose failure ends the script.
ShSetupRepo ==
  /\ ipc = "setup_repo"
  /\ IF sh.DRY_RUN
     THEN /\ ShGoto("exec")
          /\ UNCHANGED <<tree, where, effects>>
     ELSE IF tree["installdir"].git
     THEN /\ ShGoto("exec")
          /\ where' = "installdir"
          /\ effects' = [effects EXCEPT !.git = @ \cup {"pull"}]
          /\ UNCHANGED tree
     ELSE \E cloned \in BOOLEAN :
            /\ effects' = [effects EXCEPT !.git = @ \cup {"clone"}]
            /\ IF cloned
               THEN /\ tree' = [tree EXCEPT !["installdir"] =
                                  [exists |-> TRUE, git |-> TRUE, generator |-> TRUE,
                                   dist |-> FALSE, distSub |-> {}]]
                    /\ where' = "installdir"
                    /\ ShGoto("exec")
               ELSE /\ ShExit(128)
                    /\ UNCHANGED <<tree, where>>
  /\ trail' = Append(trail, "setup_repo")
  /\ UNCHANGED <<cmdline, piped, present, sh, execs>>
  /\ UNCHANGED <<gvars, mvars>>

\* Lines 119-128: cd "$INSTALL_DIR", then exec ./install.sh "$@" with the positional
\* parameters the argument loop has left; the new script starts from the defaults.
ShExec ==
  /\ ipc = "exec"
  /\ IF tree["installdir"].exists
     THEN /\ where' = "installdir"
          /\ sh' = ShDefaults(sh.args)
          /\ execs' = IF execs < MaxExec THEN execs + 1 ELSE execs
          /\ trail' = <<>>
          /\ ShGoto("parse")
     ELSE /\ ShExit(1)
          /\ trail' = Append(trail, "exec")
          /\ UNCHANGED <<where, sh, execs>>
  /\ UNCHANGED <<cmdline, piped, present, tree, effects>>
  /\ UNCHANGED <<gvars, mvars>>

\* Lines 132-136: the platform argument is validated.
ShValidate ==
  /\ ipc = "validate"
  /\ IF sh.PLATFORM # "" /\ sh.PLATFORM \notin {"opencode", "claude-code", "both"}
     THEN ShExit(1)
     ELSE ShGoto("detect")
  /\ trail' = Append(trail, "validate")
  /\ UNCHANGED <<cmdline, piped, present, tree, where, sh, execs, effects>>
  /\ UNCHANGED <<gvars, mvars>>

\* Lines 138-148: platform detection.
ShDetect ==
  /\ ipc = "detect"
  /\ sh' = [sh EXCEPT !.HAS_OPENCODE = "opencode" \in present,
                      !.HAS_CLAUDE = "claude-code" \in present]
  /\ ShGoto("select")
  /\ trail' = Append(trail, "detect")
  /\ UNCHANGED <<cmdline, piped, present, tree, where, execs, effects>>
  /\ UNCHANGED <<gvars, mvars>>

\* Lines 150-194: what to install.
ShSelect ==
  /\ ipc = "select"
  /\ LET r == Selection(sh)
     IN  /\ sh' = [sh EXCEPT !.INSTALL_OPENCODE = r.INSTALL_OPENCODE,
                             !.INSTALL_CLAUDE = r.INSTALL_CLAUDE]
         /\ IF r.ok THEN ShGoto("check_generator") ELSE ShExit(1)
  /\ trail' = Append(trail, "select")
  /\ UNCHANGED <<cmdline, piped, present, tree, where, execs, effects>>
  /\ UNCHANGED <<gvars, mvars>>

\* Lines 196-200: generator/ must exist in the current directory.
ShCheckGenerator ==
  /\ ipc = "check_generator"
  /\ IF tree[where].generator THEN ShGoto("generate") ELSE ShExit(1)
  /\ trail' = Append(trail, "check_generator")
  /\ UNCHANGED <<cmdline, piped, present, tree, where, sh, execs, effects>>
  /\ UNCHANGED <<gvars, mvars>>

\* Lines 202-212: make generate unless --no-generate or --dry-run. The Makefile's
\* generate target is generate-claude, which fills dist/claude-code; a failing make
\* ends the script (set -e) with make's status.
ShGenerate ==
  /\ ipc = "generate"
  /\ IF sh.NO_GENERATE \/ sh.DRY_RUN
     THEN /\ ShGoto("check_dist")
          /\ UNCHANGED <<tree, effects>>
     ELSE \E made \in BOOLEAN :
            /\ effects' = [effects EXCEPT !.make = @ + 1]
            /\ IF made
               THEN /\ tree' = [tree EXCEPT ![where].dist = TRUE,
                                            ![where].distSub = @ \cup {"claude-code"}]
                    /\ ShGoto("check_dist")
               ELSE /\ ShExit(2)
                    /\ UNCHANGED tree
  /\ trail' = Append(trail, "generate")
  /\ UNCHANGED <<cmdline, piped, present, where, sh, execs>>
  /\ UNCHANGED <<gvars, mvars>>

\* Lines 214-218: dist/ must exist.
ShCheckDist ==
  /\ ipc = "check_dist"
  /\ IF tree[where].dist THEN ShGoto("install_opencode") ELSE ShExit(1)
  /\ trail' = Append(trail, "check_dist")
  /\ UNCHANGED <<cmdline, piped, present, tree, where, sh, execs, effects>>
  /\ UNCHANGED <<gvars, mvars>>

\* install_platform (lines 221-261) for `platform`, then the step `next`: return 1
\* (and, under set -e, the end of the script) when dist/<platform> is missing; the
\* announcement; under --dry-run only messages; otherwise mkdir -p and cp -r.
InstallPlatform(platform, next) ==
  IF platform \notin tree[where].distSub
  THEN /\ ShExit(1)
       /\ UNCHANGED effects
  ELSE /\ ShGoto(next)
       /\ IF sh.DRY_RUN
          THEN effects' = [effects EXCEPT !.announce = @ \cup {platform}]
          ELSE effects' = [effects EXCEPT
                 !.announce = @ \cup {platform},
                 !.mkdir = @ \cup {TargetDir(platform)},
                 !.copy = @ \cup {[platform |-> platform, from |-> <<"dist", platform>>,
                                   to |-> TargetDir(platform)]}]

\* Lines 264-266.
ShInstallOpencode ==
  /\ ipc = "install_opencode"
  /\ IF sh.INSTALL_OPENCODE
     THEN InstallPlatform("opencode", "install_claude")
     ELSE ShGoto("install_claude") /\ UNCHANGED effects
  /\ trail' = Append(trail, "install_opencode")
  /\ UNCHANGED <<cmdline, piped, present, tree, where, sh, execs>>
  /\ UNCHANGED <<gvars, mvars>>

\* Lines 268-270.
ShInstallClaude ==
  /\ ipc = "install_claude"
  /\ IF sh.INSTALL_CLAUDE
     THEN InstallPlatform("claude-code", "summary")
     ELSE ShGoto("summary") /\ UNCHANGED effects
  /\ trail' = Append(trail, "install_claude")
  /\ UNCHANGED <<cmdline, piped, present, tree, where, sh, execs>>
  /\ UNCHANGED <<gvars, mvars>>

\* Lines 272-285: the summary; the script ends with status 0.
ShSummary ==
  /\ ipc = "summary"
  /\ ipc' = "done"
  /\ status' = 0
  /\ trail' = Append(trail, "summary")
  /\ UNCHANGED <<cmdline, piped, present, tree, where, sh, execs, effects>>
  /\ UNCHANGED <<gvars, mvars>>

(***************************************************************************)
(* Makefile (the current one, with the generation targets) and the legacy  *)
(* Makefile (before the src/ architecture).  A tree is a function from the *)
(* paths of the files that exist to their content; a directory exists when *)
(* a file lies under it.                                                   *)
(***************************************************************************)
CLAUDE_TARGET_DIR == <<".claude">>
OPENCODE_TARGET_DIR == <<".config", "opencode">>
DIST_OPENCODE == <<"dist", "opencode">>
DIST_CLAUDE == <<"dist", "claude-code">>

\* The root of the platform's configuration under $HOME.
PlatformRoot(platform) ==
  IF platform = "opencode" THEN OPENCODE_TARGET_DIR ELSE CLAUDE_TARGET_DIR

\* SOURCES := CLAUDE.md agents commands skills, and the files `find $src -type f`
\* lists under them in the checkout.
SOURCES == {"CLAUDE.md", "agents", "commands", "skills"}

RootFiles ==
  { <<"CLAUDE.md">>, <<"agents", "architect.md">>, <<"commands", "o.md">>,
    <<"skills", "architecture", "specific-language", "ts", "SKILL.md">> }

\* The tree without files.
EmptyTree == [p \in {} |-> ""]

\* The files of tree t under the directory prefix.
Under(t, prefix) ==
  {p \in DOMAIN t : Len(p) > Len(prefix) /\ SubSeq(p, 1, Len(prefix)) = prefix}

\* rel=${f#prefix/}
Rel(p, prefix) == SubSeq(p, Len(prefix) + 1, Len(p))

\* [ -d dir ]
DirExists(t, dir) == Under(t, dir) # {}

\* find $$src -type f for every src of SOURCES.
SourceFiles(t) == {p \in DOMAIN t : p[1] \in SOURCES}

\* The files `bun generate --platform <platform>` writes.
GeneratedPaths(platform) ==
  LET c == CHOOSE c \in (IF platform = "opencode" THEN OpencodeConfigs ELSE ClaudeConfigs) : TRUE
  IN  {AgentOutputPath(c, agents[i]) : i \in DOMAIN agents}
        \cup {SkillOutputPath(c, skills[i]) : i \in DOMAIN skills}
        \cup {CommandOutputPath(c, commands[i]) : i \in DOMAIN commands}
        \cup {GlobalOutputPath(c)}

\* The files the generator has written when it stops at a missing content file of
\* the commands: the agents and the skills.
PartialPaths(platform) ==
  {p \in GeneratedPaths(platform) : p[3] \in {"agents", "skills"}}

\* The tree with the files of `paths` (re)written with content `text`.
Overlay(t, paths, text) ==
  [p \in DOMAIN t \cup paths |-> IF p \in paths THEN text ELSE t[p]]

CopyFiles_Fresh(h, w, files, prefix, root) ==
  [p \in {root \o Rel(f, prefix) : f \in files} |->
     w[CHOOSE f \in files : root \o Rel(f, prefix) = p]]

\* find ... | while read f: mkdir -p "<root>/$(dirname $rel)"; cp "$f" "<root>/$rel".
CopyFiles(h, w, files, prefix, root) ==
  [p \in DOMAIN h \cup {root \o Rel(f, prefix) : f \in files} |->
     IF \E f \in files : root \o Rel(f, prefix) = p
     THEN w[CHOOSE f \in files : root \o Rel(f, prefix) = p]
     ELSE h[p]]

\* The copies of a recipe, as pairs of paths.
Copies(files, prefix, root) ==
  {[from |-> f, to |-> root \o Rel(f, prefix)] : f \in files}

\* The prerequisites of a target, in the order of the rule.
Prereqs(mk, target) ==
  IF mk = "legacy"
  THEN IF target = "install-fresh" THEN <<"backup", "install">> ELSE <<>>
  ELSE IF target = "generate" THEN <<"generate-claude">>
  ELSE IF target = "install" THEN <<"install-claude">>
  ELSE IF target = "install-opencode" THEN <<"generate-opencode">>
  ELSE IF target = "install-claude" THEN <<"generate-claude">>
  ELSE IF target = "install-both" THEN <<"generate-all", "install-opencode", "install-claude">>
  ELSE IF target = "install-fresh" THEN <<"backup", "install">>
  ELSE <<>>

RECURSIVE Build(_, _, _)
\* make: the prerequisites of a target are made before it, left to right, and a
\* target is made once.
Build(mk, targets, made) ==
  IF targets = <<>> THEN made
  ELSE IF \E i \in DOMAIN made : made[i] = Head(targets)
  THEN Build(mk, Tail(targets), made)
  ELSE Build(mk, Tail(targets),
             Append(Build(mk, Prereqs(mk, Head(targets)), made), Head(targets)))

\* The targets `make <target>` makes, in order.
Plan(mk, target) == Build(mk, <<target>>, <<>>)

\* The targets of each Makefile that change files.
Goals(mk) ==
  IF mk = "legacy"
  THEN {"install", "install-fresh", "install-merge", "backup", "uninstall"}
  ELSE {"generate", "generate-opencode", "generate-claude", "generate-all",
        "install", "install-opencode", "install-claude", "install-both",
        "install-fresh", "install-merge", "backup", "uninstall"}

\* The target whose recipe runs next.
MkAt(target) == mstatus = -1 /\ plan # <<>> /\ Head(plan) = target

\* The recipe of the target ended with status 0: make goes on to the next target.
MkOk(copied) ==
  /\ plan' = Tail(plan)
  /\ mlog' = Append(mlog, [target |-> Head(plan), copied |-> copied])
  /\ UNCHANGED mstatus

\* A command of the recipe failed: make stops with status 2.
MkFail ==
  /\ mstatus' = 2
  /\ mlog' = Append(mlog, [target |-> Head(plan), copied |-> {}])
  /\ UNCHANGED plan

\* cd generator && bun generate --platform ...: the generator writes the files of
\* the platforms, or stops with status 1 before or while writing.
MkGenerate(platforms) ==
  LET all == UNION {GeneratedPaths(p) : p \in platforms}
      first == CHOOSE p \in platforms : platforms = {p} \/ p = "opencode"
  IN  \/ /\ work' = Overlay(work, all, "generated")
         /\ MkOk({})
      \/ /\ work' \in {work, Overlay(work, PartialPaths(first), "generated")}
         /\ MkFail

\* generate-opencode (lines 32-35).
MkGenerateOpencode ==
  /\ MkAt("generate-opencode")
  /\ MkGenerate({"opencode"})
  /\ UNCHANGED <<mkfile, goal, home, home0>>
  /\ UNCHANGED <<gvars, ivars>>

\* generate-claude (lines 37-40).
MkGenerateClaude ==
  /\ MkAt("generate-claude")
  /\ MkGenerate({"claude-code"})
  /\ UNCHANGED <<mkfile, goal, home, home0>>
  /\ UNCHANGED <<gvars, ivars>>

\* generate-all (lines 42-45).
MkGenerateAll ==
  /\ MkAt("generate-all")
  /\ MkGenerate({"opencode", "claude-code"})
  /\ UNCHANGED <<mkfile, goal, home, home0>>
  /\ UNCHANGED <<gvars, ivars>>

\* The recipe of install-opencode and of install-claude: every file of
\* dist/<platform> is copied to the platform's root, or exit 1 without dist/<platform>.
MkInstallDist(dist, root) ==
  IF DirExists(work, dist)
  THEN /\ home' = CopyFiles(home, work, Under(work, dist), dist, root)
       /\ MkOk(Copies(Under(work, dist), dist, root))
  ELSE /\ MkFail
       /\ UNCHANGED home

\* install-opencode (lines 50-63).
MkInstallOpencode ==
  /\ MkAt("install-opencode")
  /\ MkInstallDist(DIST_OPENCODE, OPENCODE_TARGET_DIR)
  /\ UNCHANGED <<mkfile, goal, work, home0>>
  /\ UNCHANGED <<gvars, ivars>>

\* install-claude (lines 65-78).
MkInstallClaude ==
  /\ MkAt("install-claude")
  /\ MkInstallDist(DIST_CLAUDE, CLAUDE_TARGET_DIR)
  /\ UNCHANGED <<mkfile, goal, work, home0>>
  /\ UNCHANGED <<gvars, ivars>>

\* install of the legacy Makefile (lines 14-23): every file of SOURCES is copied to
\* ~/.claude under its own path.
MkInstallSources ==
  /\ mkfile = "legacy"
  /\ MkAt("install")
  /\ home' = CopyFiles(home, work, SourceFiles(work), <<>>, CLAUDE_TARGET_DIR)
  /\ MkOk(Copies(SourceFiles(work), <<>>, CLAUDE_TARGET_DIR))
  /\ UNCHANGED <<mkfile, goal, work, home0>>
  /\ UNCHANGED <<gvars, ivars>>

\* install-merge (lines 85-97; legacy 27-39): the files of SOURCES that do not
\* exist under ~/.claude are copied there.
MkInstallMerge ==
  /\ MkAt("install-merge")
  /\ LET missing == {f \in SourceFiles(work) : CLAUDE_TARGET_DIR \o f \notin DOMAIN home}
     IN  /\ home' = CopyFiles(home, work, missing, <<>>, CLAUDE_TARGET_DIR)
         /\ MkOk(Copies(missing, <<>>, CLAUDE_TARGET_DIR))
  /\ UNCHANGED <<mkfile, goal, work, home0>>
  /\ UNCHANGED <<gvars, ivars>>

\* backup (lines 99-103; legacy 41-45): ~/.claude, when it exists, is renamed to
\* ~/.claude.backup.<date>.
MkBackup ==
  /\ MkAt("backup")
  /\ LET moved == Under(home, CLAUDE_TARGET_DIR)
         to(p) == <<".claude.backup">> \o Rel(p, CLAUDE_TARGET_DIR)
     IN  home' = [p \in (DOMAIN home \ moved) \cup {to(q) : q \in moved} |->
                    IF \E q \in moved : to(q) = p
                    THEN home[CHOOSE q \in moved : to(q) = p]
                    ELSE home[p]]
  /\ MkOk({})
  /\ UNCHANGED <<mkfile, goal, work, home0>>
  /\ UNCHANGED <<gvars, ivars>>

\* uninstall (lines 105-115; legacy 47-57): the files of SOURCES are removed from
\* ~/.claude.
MkUninstall ==
  /\ MkAt("uninstall")
  /\ home' = [p \in DOMAIN home \ {CLAUDE_TARGET_DIR \o f : f \in SourceFiles(work)} |-> home[p]]
  /\ MkOk({})
  /\ UNCHANGED <<mkfile, goal, work, home0>>
  /\ UNCHANGED <<gvars, ivars>>

\* A target whose rule only names prerequisites or prints a message: generate,
\* install (line 48), install-both (80-81), install-fresh (83; legacy 25).
MkNoRecipe ==
  /\ \/ MkAt("generate")
     \/ MkAt("install") /\ mkfile = "Makefile"
     \/ MkAt("install-both")
     \/ MkAt("install-fresh")
  /\ MkOk({})
  /\ UNCHANGED <<mkfile, goal, work, home, home0>>
  /\ UNCHANGED <<gvars, ivars>>

\* Every target of the goal is made: make ends with status 0.
MkDone ==
  /\ mstatus = -1
  /\ plan = <<>>
  /\ mstatus' = 0
  /\ UNCHANGED <<mkfile, goal, plan, work, home, home0, mlog>>
  /\ UNCHANGED <<gvars, ivars>>

\* The checkouts make is run in: with or without the files of SOURCES in the root
\* (kept for reference after the move to src/), and with no dist/, a dist/ of an
\* earlier generation, or a dist/ that also holds a file no longer generated.
WorkTrees ==
  LET roots == {EmptyTree, Overlay(EmptyTree, RootFiles, "repo")}
      dists == { {}, GeneratedPaths("claude-code"),
                 GeneratedPaths("claude-code") \cup GeneratedPaths("opencode")
                   \cup {DIST_CLAUDE \o <<"agents", "planner.md">>} }
  IN  {Overlay(r, d, "earlier") : r \in roots, d \in dists}

\* The home directories: nothing installed; the user's own files only; an earlier
\* installation next to the user's own files, for both tools.
HomeTrees ==
  LET user == { <<".claude", "settings.json">>, <<".claude", "agents", "mine.md">> }
      installed == { <<".claude", "CLAUDE.md">>, <<".claude", "agents", "architect.md">>,
                     <<".claude", "agents", "researcher.md">> }
      other == { <<".config", "opencode", "opencode.json">>,
                 <<".config", "opencode", "agents", "researcher.md">> }
  IN  { EmptyTree,
        Overlay(EmptyTree, user, "user"),
        Overlay(Overlay(Overlay(EmptyTree, user, "user"), installed, "old"), other, "old") }

MakeInit ==
  /\ mkfile \in {"Makefile", "legacy"}
  /\ goal \in Goals(mkfile)
  /\ plan = Plan(mkfile, goal)
  /\ work \in WorkTrees
  /\ home \in HomeTrees
  /\ home0 = home
  /\ mlog = <<>>
  /\ mstatus = -1

\* make is not running.
MakeIdle ==
  /\ mkfile = "Makefile"
  /\ goal = ""
  /\ plan = <<>>
  /\ work = EmptyTree
  /\ home = EmptyTree
  /\ home0 = EmptyTree
  /\ mlog = <<>>
  /\ mstatus = 0

MakeNext ==
  \/ MkGenerateOpencode
  \/ MkGenerateClaude
  \/ MkGenerateAll
  \/ MkInstallOpencode
  \/ MkInstallClaude
  \/ MkInstallSources
  \/ MkInstallMerge
  \/ MkBackup
  \/ MkUninstall
  \/ MkNoRecipe
  \/ MkDone

\* The directories a run may start from: the start directory with or without
\* generator/ and with any of dist/opencode, dist/claude-code; INSTALL_DIR absent,
\* a clone without dist/ (dist/ is git-ignored), or a clone generated before.
StartDirs ==
  {[exists |-> TRUE, git |-> g, generator |-> g, dist |-> d # {"none"},
    distSub |-> d \ {"none"}] :
     g \in BOOLEAN,
     d \in {{"none"}, {"opencode"}, {"claude-code"}, {"opencode", "claude-code"}}}

InstallDirs ==
  {[exists |-> FALSE, git |-> FALSE, generator |-> FALSE, dist |-> FALSE, distSub |-> {}],
   [exists |-> TRUE, git |-> TRUE, generator |-> TRUE, dist |-> FALSE, distSub |-> {}],
   [exists |-> TRUE, git |-> TRUE, generator |-> TRUE, dist |-> TRUE,
    distSub |-> {"opencode", "claude-code"}]}

NoEffects == [git |-> {}, make |-> 0, mkdir |-> {}, copy |-> {}, announce |-> {}]

InstallInit ==
  /\ cmdline \in CmdlineSet
  /\ piped \in BOOLEAN
  /\ present \in SUBSET {"opencode", "claude-code"}
  /\ tree \in [{"cwd", "installdir"} -> StartDirs \cup InstallDirs]
  /\ tree["cwd"] \in StartDirs
  /\ tree["installdir"] \in InstallDirs
  /\ where = "cwd"
  /\ sh = ShDefaults(cmdline)
  /\ ipc = "parse"
  /\ status = -1
  /\ execs = 0
  /\ effects = NoEffects
  /\ trail = <<>>

\* The installer is not running.
InstallIdle ==
  /\ cmdline = <<>>
  /\ piped = FALSE
  /\ present = {}
  /\ tree = [d \in {"cwd", "installdir"} |->
               [exists |-> FALSE, git |-> FALSE, generator |-> FALSE, dist |-> FALSE,
                distSub |-> {}]]
  /\ where = "cwd"
  /\ sh = ShDefaults(<<>>)
  /\ ipc = "idle"
  /\ status = -1
  /\ execs = 0
  /\ effects = NoEffects
  /\ trail = <<>>

\* The generator is not running.
GenIdle ==
  /\ argv = <<>>
  /\ opencodeJson = CHOOSE c \in OpencodeConfigs : c.features = kiro.features /\ c.frontmatter = kiro.frontmatter
  /\ claudeJson = CHOOSE c \in ClaudeConfigs : c.features = kiro.features /\ c.frontmatter = kiro.frontmatter
  /\ fs = SourceTree
  /\ pc = "idle"
  /\ queue = <<>>
  /\ phase = "begin"
  /\ idx = 1
  /\ writes = <<>>
  /\ stdout = <<>>
  /\ stderr = <<>>
  /\ exitCode = -1
  /\ runs = 1
  /\ prevFs = fs

InstallNext ==
  \/ ShParse
  \/ ShPipeCheck
  \/ ShSetupRepo
  \/ ShExec
  \/ ShValidate
  \/ ShDetect
  \/ ShSelect
  \/ ShCheckGenerator
  \/ ShGenerate
  \/ ShCheckDist
  \/ ShInstallOpencode
  \/ ShInstallClaude
  \/ ShSummary

\* The generator CLI, run and re-run on one checkout.
Init == GenInit /\ InstallIdle /\ MakeIdle
Next == GenNext
Spec == Init /\ [][Next]_vars

\* One run of install.sh.
InstallStart == InstallInit /\ GenIdle /\ MakeIdle
InstallSpec == InstallStart /\ [][InstallNext]_vars

\* One run of install.sh, in which the shell goes on to the next statement as long
\* as there is one.
InstallFairSpec == InstallStart /\ [][InstallNext]_vars /\ WF_vars(InstallNext)

\* One run of make, with either Makefile.
MakeStart == MakeInit /\ GenIdle /\ InstallIdle
MakeSpec == MakeStart /\ [][MakeNext]_vars

(***************************************************************************)
(* Reading a generated file back, as a tool that loads it does.            *)
(***************************************************************************)
\* Token i of the text is the first token of a line.
LineStart(text, i) == i = 1 \/ text[i - 1] = NL

\* Token i of the text is the last token of a line.
LineEnd(text, i) == i = Len(text) \/ text[i + 1] = NL

\* The line that starts at token i is the delimiter line ---.
DelimLine(text, i) == text[i] = DELIM /\ LineStart(text, i) /\ LineEnd(text, i)

\* The text opens with a frontmatter block: a --- line, closed by a later --- line.
HasFrontmatter(text) ==
  /\ Len(text) >= 1
  /\ DelimLine(text, 1)
  /\ \E k \in 2..Len(text) : DelimLine(text, k)

\* The keys of the `key: value` lines of the opening frontmatter block.
FrontmatterKeys(text) ==
  IF HasFrontmatter(text)
  THEN LET close == CHOOSE k \in 2..Len(text) :
                      DelimLine(text, k) /\ \A j \in 2..(k - 1) : ~DelimLine(text, j)
       IN  {text[i] : i \in {j \in 2..(close - 2) : LineStart(text, j) /\ text[j + 1] = ": "}}
  ELSE {}

\* The descriptor that main passes to generateForPlatform for a platform identifier.
LoadedConfig(id) == IF id = "opencode" THEN opencodeJson ELSE claudeJson

Range(seq) == {seq[i] : i \in DOMAIN seq}

AgentFileOf(c) ==
  {<<"dist", c.platform, c.folderStructure.agentPath, agents[i].name \o ".md">> : i \in DOMAIN agents}
SkillFileOf(c) ==
  {<<"dist", c.platform, c.folderStructure.skillPath, skills[i].name, "SKILL.md">> : i \in DOMAIN skills}
CommandFileOf(c) ==
  {<<"dist", c.platform, c.folderStructure.commandPath, commands[i].name \o ".md">> : i \in DOMAIN commands}
GlobalFileOf(c) == {<<"dist", c.platform, c.folderStructure.globalFile>>}

\* The paths this run has written for descriptor c.
WrittenBy(c) == {w.path : w \in {x \in Range(writes) : x.by = c.platform}}

\* generateForPlatform has returned for descriptor c in this run.
Returned(c) == (c.displayName \o " generation complete") \in Range(stdout)

\* Every content file the configuration names is present under src/.
SourceComplete == \A f \in DOMAIN SourceTree : f \in DOMAIN fs

(***************************************************************************)
(* C1: the frontmatter of every generated agent file has the keys name and *)
(* description, the key tools exactly when the descriptor's supportsTools  *)
(* is true and the key color exactly when supportsColors is true; an       *)
(* unsupported key has no line at all.                                     *)
(***************************************************************************)
C1_AgentFrontmatterKeys ==
  \A w \in Range(writes) :
    LET c == LoadedConfig(w.by)
    IN  w.path \in AgentFileOf(c) =>
          FrontmatterKeys(fs[w.path]) =
            {"name", "description"}
              \cup (IF c.features.supportsTools THEN {"tools"} ELSE {})
              \cup (IF c.features.supportsColors THEN {"color"} ELSE {})

C1_Witness ==
  /\ pc = "done"
  /\ ~opencodeJson.features.supportsTools /\ opencodeJson.features.supportsColors
  /\ claudeJson.features.supportsTools /\ ~claudeJson.features.supportsColors
  /\ AgentFileOf(opencodeJson) \subseteq WrittenBy(opencodeJson)
  /\ AgentFileOf(claudeJson) \subseteq WrittenBy(claudeJson)

(***************************************************************************)
(* C2: within the agents, the skills and the commands no two entries have  *)
(* the same name, and no run writes the same output file twice.            *)
(***************************************************************************)
C2_UniqueNames ==
  /\ \A i, j \in DOMAIN agents : i # j => agents[i].name # agents[j].name
  /\ \A i, j \in DOMAIN skills : i # j => skills[i].name # skills[j].name
  /\ \A i, j \in DOMAIN commands : i # j => commands[i].name # commands[j].name
  /\ \A i, j \in DOMAIN writes : i # j => writes[i].path # writes[j].path

C2_Witness ==
  /\ pc = "done"
  /\ PlatformArg(argv) = "all"
  /\ Len(writes) = 2 * (Len(agents) + Len(skills) + Len(commands) + 1)

(***************************************************************************)
(* C3 (as claimed): a completed run with no --platform argument or with    *)
(* --platform all has generated a tree for every descriptor of             *)
(* src/platforms, kiro included.                                           *)
(***************************************************************************)
PlatformsDir == {opencodeJson, claudeJson, kiro}

TreeGenerated(c) == \E f \in DOMAIN fs : Len(f) >= 2 /\ f[1] = "dist" /\ f[2] = c.platform

C3_AllPlatformsGenerated ==
  (pc = "done" /\ PlatformArg(argv) = "all") => \A c \in PlatformsDir : TreeGenerated(c)

(***************************************************************************)
(* C4 (as claimed): a run with --platform P, P the identifier of a         *)
(* descriptor of src/platforms, on a complete source tree ends with the    *)
(* tree of P generated and nothing written for another platform.           *)
(***************************************************************************)
C4_NamedPlatformGenerated ==
  \A c \in PlatformsDir :
    (pc \in {"done", "exited"} /\ argv = <<"--platform", c.platform>> /\ SourceComplete) =>
      /\ exitCode = 0
      /\ TreeGenerated(c)
      /\ \A w \in Range(writes) : w.by = c.platform

(***************************************************************************)
(* C5: a run that follows a run with the same command line on unchanged    *)
(* sources ends with the files, and each file's text, as they were when it *)
(* started.                                                                *)
(***************************************************************************)
C5_Idempotent ==
  (runs >= 2 /\ pc \in {"done", "exited"}) => fs = prevFs

C5_Witness ==
  /\ runs = 2
  /\ pc = "done"
  /\ Len(writes) = 2 * (Len(agents) + Len(skills) + Len(commands) + 1)
  /\ \E f \in DOMAIN StaleTree : f \in DOMAIN fs

(***************************************************************************)
(* C6: once generateForPlatform has returned for a descriptor, the files   *)
(* it wrote are one <agentPath>/<name>.md per agent, one                   *)
(* <skillPath>/<name>/SKILL.md per skill, one <commandPath>/<name>.md per  *)
(* command and the global file, each written once; and no write of a run   *)
(* is outside dist/<platform>.                                             *)
(***************************************************************************)
C6_ExactFiles ==
  /\ \A w \in Range(writes) :
       Len(w.path) > 2 /\ SubSeq(w.path, 1, 2) = <<"dist", w.by>>
  /\ \A c \in {opencodeJson, claudeJson} :
       Returned(c) =>
         /\ WrittenBy(c) = AgentFileOf(c) \cup SkillFileOf(c) \cup CommandFileOf(c) \cup GlobalFileOf(c)
         /\ Cardinality({i \in DOMAIN writes : writes[i].by = c.platform})
              = Len(agents) + Len(skills) + Len(commands) + 1
         /\ WrittenBy(c) \subseteq DOMAIN fs

C6_Witness ==
  /\ Returned(opencodeJson)
  /\ Returned(claudeJson)
  /\ pc = "done"

(***************************************************************************)
(* C7 (as claimed): every field a descriptor lists as required for agents  *)
(* is a key of the frontmatter of each agent file generated for it,        *)
(* whatever its feature flags; likewise for skills and commands.           *)
(***************************************************************************)
C7_RequiredFieldsPresent ==
  \A w \in Range(writes) :
    LET c == LoadedConfig(w.by)
    IN  /\ w.path \in AgentFileOf(c) =>
             Range(c.frontmatter.agents.required) \subseteq FrontmatterKeys(fs[w.path])
        /\ w.path \in SkillFileOf(c) =>
             Range(c.frontmatter.skills.required) \subseteq FrontmatterKeys(fs[w.path])
        /\ w.path \in CommandFileOf(c) =>
             Range(c.frontmatter.commands.required) \subseteq FrontmatterKeys(fs[w.path])

(***************************************************************************)
(* C8 (as claimed): a generated agent, skill or command file opens with a  *)
(* frontmatter block exactly when the descriptor's supportsFrontmatter is  *)
(* true.                                                                   *)
(***************************************************************************)
C8_FrontmatterFollowsFlag ==
  \A w \in Range(writes) :
    LET c == LoadedConfig(w.by)
    IN  w.path \in AgentFileOf(c) \cup SkillFileOf(c) \cup CommandFileOf(c) =>
          (HasFrontmatter(fs[w.path]) <=> c.features.supportsFrontmatter)

(***************************************************************************)
(* C9: a run whose --platform value is none of all, opencode, claude-code  *)
(* reports the unknown platform on stderr, exits with status 1, writes no  *)
(* file and prints no completion message.                                  *)
(***************************************************************************)
C9_UnknownPlatformRejected ==
  (pc # "main" /\ PlatformArg(argv) \notin {"all", "opencode", "claude-code"}) =>
    /\ pc = "exited"
    /\ exitCode = 1
    /\ ("Error: Unknown platform " \o PlatformArg(argv)) \in Range(stderr)
    /\ writes = <<>>
    /\ fs = prevFs
    /\ "Generation complete!" \notin Range(stdout)

C9_Witness ==
  /\ pc = "exited"
  /\ argv = <<"--platform", "vscode">>
  /\ exitCode = 1

(***************************************************************************)
(* C10: started without --platform, install.sh installs to the tools it    *)
(* detects and to no other: it never announces an installation or copies   *)
(* into the directory of a tool that is not present; a run that reaches    *)
(* the summary has installed (under --dry-run: announced, without copying) *)
(* exactly the present tools; and when none is present the script exits    *)
(* with status 1 at the selection, having run no make generate, no mkdir   *)
(* and no copy.                                                            *)
(***************************************************************************)
NoPlatformOption == "--platform" \notin Range(cmdline)

CopiedTo == {c.platform : c \in effects.copy}

C10_AutoDetectInstallsDetected ==
  NoPlatformOption =>
    /\ CopiedTo \subseteq present
    /\ effects.announce \subseteq present
    /\ ipc = "done" =>
         /\ effects.announce = present
         /\ CopiedTo = (IF sh.DRY_RUN THEN {} ELSE present)
    /\ (present = {} /\ "select" \in Range(trail)) => (ipc = "exit" /\ status = 1)
    /\ present = {} => (effects.make = 0 /\ effects.copy = {} /\ effects.mkdir = {})

C10_Witness ==
  /\ NoPlatformOption
  /\ ipc = "done"
  /\ present = {"opencode"}
  /\ CopiedTo = {"opencode"}
  /\ "claude-code" \in tree[where].distSub
  /\ effects.make = 1

(***************************************************************************)
(* What the user asked for on the command line of the first invocation.    *)
(***************************************************************************)
Given(option) == option \in Range(cmdline)

GivenPlatform ==
  IF \E i \in 1..(Len(cmdline) - 1) : cmdline[i] = "--platform"
  THEN cmdline[(CHOOSE i \in 1..(Len(cmdline) - 1) : cmdline[i] = "--platform") + 1]
  ELSE ""

(***************************************************************************)
(* C11 (as claimed): without --force, install.sh never copies into the     *)
(* target directory of a tool that is not present, whatever --platform is. *)
(***************************************************************************)
C11_NoCopyToUndetectedWithoutForce ==
  ~Given("--force") => CopiedTo \subseteq present

(***************************************************************************)
(* C12 (as claimed): with --dry-run, install.sh performs no git clone or   *)
(* pull, no make generate, no mkdir and no copy, in every mode.            *)
(***************************************************************************)
C12_DryRunModifiesNothing ==
  Given("--dry-run") =>
    /\ effects.git = {}
    /\ effects.make = 0
    /\ effects.mkdir = {}
    /\ effects.copy = {}

(***************************************************************************)
(* C13 (as claimed): the installer re-executed from the cloned repository  *)
(* runs with the options given to the first invocation.                    *)
(***************************************************************************)
C13_ReexecKeepsOptions ==
  (execs >= 1 /\ ipc # "parse") =>
    /\ sh.DRY_RUN = Given("--dry-run")
    /\ sh.NO_GENERATE = Given("--no-generate")
    /\ sh.FORCE = Given("--force")
    /\ sh.PLATFORM = GivenPlatform

(***************************************************************************)
(* C14 (as claimed): with a --platform value other than opencode,          *)
(* claude-code or both, install.sh clones or updates no repository, runs   *)
(* no generation, copies no file, and ends with status 1.                  *)
(***************************************************************************)
C14_InvalidPlatformRejectedFirst ==
  GivenPlatform \notin {"", "opencode", "claude-code", "both"} =>
    /\ effects.git = {}
    /\ effects.make = 0
    /\ effects.copy = {}
    /\ ipc \in {"done", "exit"} => status = 1

(***************************************************************************)
(* C15 (as claimed): install.sh copies dist/<platform>/<rel> to            *)
(* <root>/<rel>, where <root> is ~/.claude for claude-code and             *)
(* ~/.config/opencode for opencode: the directory make install-<platform>  *)
(* copies the same file into.                                              *)
(***************************************************************************)
C15_InstallAtPlatformRoot ==
  \A c \in effects.copy :
    /\ c.from = <<"dist", c.platform>>
    /\ c.to = PlatformRoot(c.platform)

(***************************************************************************)
(* C18 (as claimed): every run of install.sh ends: it reaches the summary  *)
(* or an exit.                                                             *)
(***************************************************************************)
C18_Terminates == <>(ipc \in {"done", "exit"})

(***************************************************************************)
(* C16: make install overwrites repo files and keeps user files.  After a  *)
(* successful make install, every installed source file (a file of         *)
(* dist/claude-code, or of SOURCES with the legacy Makefile) exists under  *)
(* ~/.claude with the source's content, and every file that was under      *)
(* $HOME before and is not the target of an installed file is still there  *)
(* with the content it had.                                                *)
(***************************************************************************)
\* The files make install installs, each with the path it is installed at.
Installed ==
  IF mkfile = "legacy"
  THEN Copies(SourceFiles(work), <<>>, CLAUDE_TARGET_DIR)
  ELSE Copies(Under(work, DIST_CLAUDE), DIST_CLAUDE, CLAUDE_TARGET_DIR)

InstallEnded == goal = "install" /\ mstatus = 0

C16_InstallOverwritesAndKeeps ==
  InstallEnded =>
    /\ \A c \in Installed : c.to \in DOMAIN home /\ home[c.to] = work[c.from]
    /\ \A p \in DOMAIN home0 :
         p \notin {c.to : c \in Installed} => p \in DOMAIN home /\ home[p] = home0[p]

\* make install has ended where the user had files of their own and files of an
\* earlier installation: one file was overwritten with a new content, one kept.
C16_Witness ==
  /\ InstallEnded
  /\ \E c \in Installed : c.to \in DOMAIN home0 /\ home0[c.to] # home[c.to]
  /\ \E p \in DOMAIN home0 : p[1] = ".claude" /\ p \notin {c.to : c \in Installed}

(***************************************************************************)
(* C17 (as claimed): every installation target of the Makefile, install    *)
(* and the five install-... targets, runs the generator before it copies a *)
(* file, and copies only files of dist/.                                   *)
(***************************************************************************)
GenerateTargets == {"generate-opencode", "generate-claude", "generate-all"}

InstallTargets ==
  {"install", "install-opencode", "install-claude", "install-both", "install-fresh",
   "install-merge"}

C17_InstallTargetsGenerateFirst ==
  (mkfile = "Makefile" /\ goal \in InstallTargets /\ mstatus = 0) =>
    /\ \E j \in DOMAIN mlog : mlog[j].target \in GenerateTargets
    /\ \A i \in DOMAIN mlog :
         mlog[i].copied # {} =>
           /\ \E j \in 1..(i - 1) : mlog[j].target \in GenerateTargets
           /\ \A c \in mlog[i].copied : c.from[1] = "dist"

(***************************************************************************)
(* C19: every file a run has written for an agent, a skill or a command is *)
(* the frontmatter synthesized for the entry, an empty line, and the text  *)
(* of the entry's content file; the global file is the text of the global  *)
(* content file, with nothing before it; and every file under src/ is as   *)
(* it was when the run started.                                            *)
(***************************************************************************)
\* The text a file written at `path` for descriptor c is to have: the frontmatter
\* lines, the line end of the last one, an empty line, the content.
Expected(c, path) ==
  IF path \in AgentFileOf(c)
  THEN LET a == agents[CHOOSE i \in DOMAIN agents : AgentOutputPath(c, agents[i]) = path]
       IN  generateAgentFrontmatter(a, c) \o <<NL>> \o <<NL>> \o fs[SRC_ROOT \o a.contentFile]
  ELSE IF path \in SkillFileOf(c)
  THEN LET k == skills[CHOOSE i \in DOMAIN skills : SkillOutputPath(c, skills[i]) = path]
       IN  generateSkillFrontmatter(k, c) \o <<NL>> \o <<NL>> \o fs[SRC_ROOT \o k.contentFile]
  ELSE IF path \in CommandFileOf(c)
  THEN LET m == commands[CHOOSE i \in DOMAIN commands : CommandOutputPath(c, commands[i]) = path]
       IN  generateCommandFrontmatter(m, c) \o <<NL>> \o <<NL>> \o fs[SRC_ROOT \o m.contentFile]
  ELSE fs[SRC_ROOT \o globalConfig.contentFile]

SourcesOf(t) == {p \in DOMAIN t : p[1] = "src"}

C19_OutputIsFrontmatterThenContent ==
  /\ \A w \in Range(writes) : fs[w.path] = Expected(LoadedConfig(w.by), w.path)
  /\ SourcesOf(fs) = SourcesOf(prevFs)
  /\ \A p \in SourcesOf(prevFs) : fs[p] = prevFs[p]

\* A run has written the files of a platform to the end: an agent file, which
\* starts with the frontmatter, and the global file, which starts with the content.
C19_Witness ==
  /\ pc = "done"
  /\ \E w \in Range(writes) :
       /\ w.path \in AgentFileOf(LoadedConfig(w.by))
       /\ fs[w.path][1] = DELIM
  /\ \E w \in Range(writes) :
       /\ w.path \in GlobalFileOf(LoadedConfig(w.by))
       /\ fs[w.path][1] # DELIM
       /\ fs[w.path] = SourceTree[SRC_ROOT \o globalConfig.contentFile]

====
